---- MODULE Spec2Model ----
(***************************************************************************)
(* A model of the robo-advisory backend: the document store (database.py), *)
(* the request schemas (schemas.py) and the HTTP handlers, the portfolio   *)
(* summarizer, the heuristic advisor and the language-model client         *)
(* (main.py).                                                              *)
(*                                                                         *)
(* Conventions.                                                            *)
(*  - A Python string is a sequence of tokens; "" is << >>.                *)
(*  - An Optional value is a sequence of length at most one; None is << >>.*)
(*  - Money is in whole units; a percentage rounded to 2 decimals is kept  *)
(*    in hundredths of a percent (60.0 is 6000).                           *)
(*  - An ObjectId is a positive number; its string form is an id string    *)
(*    (see ObjectId and StrOid).                                           *)
(***************************************************************************)
EXTENDS Naturals, Integers, Sequences, FiniteSets, TLC

VARIABLES
    user,        \* db["user"]: the documents in insertion order
    portfolio,   \* db["portfolio"]: the documents in insertion order
    now,         \* the clock (datetime.utcnow()) at the last writing request
    nextOid,     \* the next ObjectId the driver generates
    token,       \* whether HF_API_TOKEN is set in the environment
    req,         \* the last request handled
    resp,        \* the response to it
    log,         \* the storage calls and outbound LLM calls it made, in order
    procs,       \* SpecConc: each worker's position in save_portfolio
    sumIn,       \* SpecSum: the holdings given to _summarize_portfolio
    sumOut,      \* SpecSum: its result
    hfIn,        \* SpecHF: the prompt, credential and upstream answer
    hfOut        \* SpecHF: what _hf_complete returned

vars == <<user, portfolio, now, nextOid, token, req, resp, log,
          procs, sumIn, sumOut, hfIn, hfOut>>

----------------------------------------------------------------------------
(* Bounds of the model and constants of the program *)

MaxTime == 1
MaxHoldings == 6
MaxText == 3
MaxWorkers == 2

TopN == 5
ConcentrationPct == 25
MinSectors == 4

----------------------------------------------------------------------------
(* Small helpers *)

None == << >>
Some(v) == <<v>>

Min(a, b) == IF a <= b THEN a ELSE b

RECURSIVE SumSeq(_)
SumSeq(s) == IF s = << >> THEN 0 ELSE s[1] + SumSeq(Tail(s))

Front(s) == SubSeq(s, 1, Len(s) - 1)

\* str.startswith
StartsWith(s, p) == Len(p) <= Len(s) /\ SubSeq(s, 1, Len(p)) = p

\* str.strip: leading and trailing whitespace removed
RECURSIVE LStrip(_)
LStrip(s) == IF s # << >> /\ s[1] = " " THEN LStrip(Tail(s)) ELSE s

RECURSIVE RStrip(_)
RStrip(s) == IF s # << >> /\ s[Len(s)] = " " THEN RStrip(Front(s)) ELSE s

Strip(s) == RStrip(LStrip(s))

\* Python's round() of the non-negative rational num/den: half goes to even
RoundHalfEven(num, den) ==
    LET q == num \div den
        r == num % den
    IN  IF 2 * r < den THEN q
        ELSE IF 2 * r > den THEN q + 1
        ELSE IF q % 2 = 0 THEN q ELSE q + 1

----------------------------------------------------------------------------
(* main.py: _summarize_portfolio *)

\* h.get("avg_cost", 0) * h.get("quantity", 0)
HoldingCost(h) == h.avg_cost * h.quantity

\* sum(...) or 1.0
TotalCost(holdings) ==
    LET s == SumSeq([i \in 1..Len(holdings) |-> HoldingCost(holdings[i])])
    IN  IF s = 0 THEN 1 ELSE s

\* h.get("sector") or "Other"
SectorOf(h) == IF h.sector = None THEN "Other" ELSE h.sector[1]

\* round(v / total_cost * 100, 2), in hundredths of a percent
Pct(v, total) == RoundHalfEven(v * 10000, total)

SectorAlloc(holdings) ==
    LET total == TotalCost(holdings)
        secs == {SectorOf(holdings[i]) : i \in 1..Len(holdings)}
        bySector(k) == SumSeq([i \in 1..Len(holdings) |->
                          IF SectorOf(holdings[i]) = k
                          THEN HoldingCost(holdings[i]) ELSE 0])
    IN  [k \in secs |-> Pct(bySector(k), total)]

Position(h, total) == [symbol |-> h.symbol, weight |-> Pct(HoldingCost(h), total)]

\* A sort that is not stable: x goes before the elements that equal it.
InsertReversedTies(s, x) ==
    LET before == {i \in 1..Len(s) : s[i].weight > x.weight}
        k == Cardinality(before)
    IN  SubSeq(s, 1, k) \o <<x>> \o SubSeq(s, k + 1, Len(s))

\* The place sorted(..., reverse=True) gives x among the already ordered s,
\* x coming after them in the input: after every element that is not smaller.
InsertDesc(s, x) ==
    LET before == {i \in 1..Len(s) : s[i].weight >= x.weight}
        k == Cardinality(before)
    IN  SubSeq(s, 1, k) \o <<x>> \o SubSeq(s, k + 1, Len(s))

\* sorted(positions, key=weight, reverse=True): stable, descending
RECURSIVE SortedDesc(_)
SortedDesc(s) ==
    IF s = << >> THEN << >> ELSE InsertDesc(SortedDesc(Front(s)), s[Len(s)])

_summarize_portfolio(doc) ==
    LET holdings == doc.holdings
        total == TotalCost(holdings)
        sorted == SortedDesc([i \in 1..Len(holdings) |-> Position(holdings[i], total)])
    IN  [estimated_value   |-> total,
         sector_allocation |-> SectorAlloc(holdings),
         top_positions     |-> SubSeq(sorted, 1, Min(TopN, Len(sorted))),
         holdings_count    |-> Len(holdings)]

----------------------------------------------------------------------------
(* main.py: _heuristic_advice; the text is the sequence of its lines *)

_heuristic_advice(u, doc) ==
    LET risk == u.risk_tolerance
        summary == _summarize_portfolio(doc)
        top == summary.top_positions
    IN  <<"checkup", ToString(summary.estimated_value), "Diversification:">>
        \o (IF Cardinality(DOMAIN summary.sector_allocation) < MinSectors
            THEN <<"add_sectors">> ELSE <<"mix_ok">>)
        \o (IF top # << >> /\ top[1].weight > ConcentrationPct * 100
            THEN <<"trim_largest">> ELSE << >>)
        \o <<"Risk alignment:">>
        \o (IF risk = "conservative" THEN <<"bonds_cash">>
            ELSE IF risk = "balanced" THEN <<"mix_60_40">>
            ELSE <<"equities_alts">>)
        \o <<"Next steps:", "auto_invest", "map_goals">>

----------------------------------------------------------------------------
(* main.py: _hf_complete.  A JSON value for generated_text is tagged:      *)
(* a string, or null.  The upstream answer is a record: the kind of        *)
(* failure, or the shape of the JSON body.                                 *)

Str(s) == [t |-> "str", s |-> s]
Null == [t |-> "null", s |-> << >>]

\* Python truthiness of what _hf_complete returns
Truthy(v) == v.t = "str" /\ v.s # << >>

Upstream(kind, shape, first, has, text) ==
    [kind |-> kind, shape |-> shape, first |-> first, has |-> has, text |-> text]

NetworkError == Upstream("network_error", "none", "none", FALSE, Null)
HttpError    == Upstream("http_error", "none", "none", FALSE, Null)
BadJson      == Upstream("bad_json", "none", "none", FALSE, Null)
EmptyList    == Upstream("json", "list", "none", FALSE, Null)
ListScalar   == Upstream("json", "list", "scalar", FALSE, Null)
ListNoField  == Upstream("json", "list", "obj", FALSE, Null)
DictNoField  == Upstream("json", "dict", "none", FALSE, Null)
OtherJson    == Upstream("json", "other", "none", FALSE, Null)
ListOf(text) == Upstream("json", "list", "obj", TRUE, text)
DictOf(text) == Upstream("json", "dict", "none", TRUE, text)

Failures == {NetworkError, HttpError, BadJson, EmptyList, ListScalar,
             ListNoField, DictNoField, OtherJson}

\* The try block once the request was sent: the value returned, "" from the
\* except clause and from the final return.
HfParse(prompt, out) ==
    IF out.kind # "json" THEN Str(<< >>)
    ELSE IF out.shape = "list" /\ out.first = "obj" /\ out.has
    THEN IF out.text.t = "str" /\ StartsWith(out.text.s, prompt)
         THEN Str(Strip(SubSeq(out.text.s, Len(prompt) + 1, Len(out.text.s))))
         ELSE out.text
    ELSE IF out.shape = "dict" /\ out.has
    THEN out.text
    ELSE Str(<< >>)

\* One entry of the log: a storage call, or client.post with the prompt
\* sent, the upstream's answer and what _hf_complete made of it
Call(name) == [call |-> name]
LlmCall(prompt, out, returned) ==
    [call |-> "llm", prompt |-> prompt, answer |-> out, returned |-> returned]

\* A client that posts again when the first attempt gave nothing
HfCompleteRetry(prompt, tok, out) ==
    IF ~tok THEN [text |-> Str(<< >>), calls |-> << >>]
    ELSE LET r == HfParse(prompt, out)
         IN  [text |-> r,
              calls |-> IF Truthy(r) THEN <<LlmCall(prompt, out, r)>>
                        ELSE <<LlmCall(prompt, out, r), LlmCall(prompt, out, r)>>]

\* The value returned and the outbound calls made
_hf_complete(prompt, tok, out) ==
    IF ~tok THEN [text |-> Str(<< >>), calls |-> << >>]
    ELSE LET r == HfParse(prompt, out)
         IN  [text |-> r, calls |-> <<LlmCall(prompt, out, r)>>]

----------------------------------------------------------------------------
(* bson.ObjectId and its string form.  An id string is 24 hex digits (of   *)
(* either case), some other text, or the empty string.                     *)

Hex(oid, upper) == [k |-> "hex", oid |-> oid, upper |-> upper]
BadId == [k |-> "bad", oid |-> 0, upper |-> FALSE]
EmptyId == [k |-> "empty", oid |-> 0, upper |-> FALSE]

\* An ObjectId constructor that takes any non-empty string
ObjectIdValidLoose(s) == s.k # "empty"

\* ObjectId(s) raises unless s is 24 hex digits
ObjectIdValid(s) == s.k = "hex"
\* ObjectId(s): the case of the digits is lost
ObjectId(s) == s.oid
\* str(oid): lower-case hex
StrOid(oid) == Hex(oid, FALSE)

----------------------------------------------------------------------------
(* pymongo, as database.py and main.py use it *)

Matches(col, field, value) == {i \in 1..Len(col) : col[i][field] = value}

First(hits) == CHOOSE i \in hits : \A j \in hits : i <= j

\* col.find_one({field: value}): the first document that matches, or None
find_one(col, field, value) ==
    LET hits == Matches(col, field, value)
    IN  IF hits = {} THEN None ELSE Some(col[First(hits)])

\* col.insert_one(doc)
insert_one(col, doc) == Append(col, doc)

\* col.update_one({field: value}, {"$set": fields}): the first match gets
\* the fields
update_one(col, field, value, fields) ==
    LET hits == Matches(col, field, value)
    IN  IF hits = {} THEN col
        ELSE [i \in 1..Len(col) |->
                IF i = First(hits) THEN fields @@ col[i] ELSE col[i]]

\* The document as the handlers return it: _id as a string
Serialized(doc) == [doc EXCEPT !._id = StrOid(@)]

\* database.py create_document: what is stored under the fresh ObjectId oid
\* at time t
create_document(data, t, oid) ==
    [_id |-> oid, created_at |-> t, updated_at |-> t] @@ data

\* database.py update_document at time t
update_document(col, field, value, update, t) ==
    update_one(col, field, value, [updated_at |-> t] @@ update)

----------------------------------------------------------------------------
(* main.py: the handlers.  Each gives the response, the calls made in      *)
(* order, and the collections afterwards.                                  *)

Response(status, kind, body) == [status |-> status, kind |-> kind, body |-> body]
Error(status, detail) == Response(status, "error", detail)

Outcome(r, calls, U, P, oid) ==
    [resp |-> r, log |-> calls, user |-> U, portfolio |-> P, nextOid |-> oid]

\* A sign-in that never looks for the email
SigninAlwaysCreate(u, U, P, t, oid) ==
    LET created == create_document(u, t, oid)
    IN  Outcome(Response(200, "user", Serialized(created)),
                <<Call("insert_user")>>, insert_one(U, created), P, oid + 1)

\* POST /users/signin
signin(u, U, P, t, oid) ==
    LET existing == find_one(U, "email", u.email)
    IN  IF existing # None
        THEN LET U2 == update_document(U, "_id", existing[1]._id,
                          [name |-> u.name, risk_tolerance |-> u.risk_tolerance,
                           goals |-> u.goals, age |-> u.age,
                           horizon_years |-> u.horizon_years], t)
                 refreshed == find_one(U2, "email", u.email)
             IN  Outcome(Response(200, "user", Serialized(refreshed[1])),
                         <<Call("find_user"), Call("update_user"), Call("find_user")>>,
                         U2, P, oid)
        ELSE LET created == create_document(u, t, oid)
             IN  Outcome(Response(200, "user", Serialized(created)),
                         <<Call("find_user"), Call("insert_user")>>,
                         insert_one(U, created), P, oid + 1)

\* POST /portfolio/save
save_portfolio(p, U, P, t, oid) ==
    LET existing == find_one(P, "user_id", p.user_id)
    IN  IF existing # None
        THEN LET P2 == update_one(P, "_id", existing[1]._id, p)
                 updated == find_one(P2, "_id", existing[1]._id)
             IN  Outcome(Response(200, "portfolio", Serialized(updated[1])),
                         <<Call("find_portfolio"), Call("update_portfolio"),
                           Call("find_portfolio")>>,
                         U, P2, oid)
        ELSE LET created == create_document(p, t, oid)
             IN  Outcome(Response(200, "portfolio", Serialized(created)),
                         <<Call("find_portfolio"), Call("insert_portfolio")>>,
                         U, insert_one(P, created), oid + 1)

\* ', '.join(goals)
JoinGoals(goals) ==
    IF goals = << >> THEN << >>
    ELSE <<goals[1]>> \o [i \in 1..2 * (Len(goals) - 1) |->
                            IF i % 2 = 1 THEN ", " ELSE goals[i \div 2 + 1]]

AnalyzePrompt(u, summary) ==
    <<"You are a helpful, compliant financial robo-advisor.", u.risk_tolerance>>
    \o JoinGoals(u.goals)
    \o <<ToString(summary), "Provide a brief recommendation in 5-7 bullet points.">>

ChatPrompt(u, summary, message) ==
    <<"You are an AI robo-advisor.", u.risk_tolerance>>
    \o JoinGoals(u.goals)
    \o <<ToString(summary), "User:", message, "Assistant:">>

ChatFallback == <<"Based on your profile, focus on staying diversified">>

\* What the upstream answers to a prompt: a failure, or one of the two
\* shapes around a text that may echo the prompt.
TextOf(c, prompt) ==
    IF c.null THEN Null
    ELSE Str((IF c.echo THEN prompt ELSE << >>) \o c.rest)

AnswerOf(c, prompt) ==
    IF c.shape = "fail" THEN c.fail
    ELSE IF c.shape = "list" THEN ListOf(TextOf(c.text, prompt))
    ELSE DictOf(TextOf(c.text, prompt))

\* Advice that is whatever the client returned
AdviceTextNoFallback(ai_text, heuristic) == ai_text

\* ai_text or heuristic
AdviceText(ai_text, heuristic) ==
    IF Truthy(ai_text) THEN ai_text ELSE Str(heuristic)

\* POST /advice/analyze; payload.user_id is None when the key is absent,
\* c is what the upstream answers if it is asked.
analyze(payload, U, P, tok, c, oid) ==
    LET user_id == payload.user_id
    IN  IF user_id = None \/ user_id[1].k = "empty"
        THEN Outcome(Error(400, "user_id is required"), << >>, U, P, oid)
        ELSE IF ~ObjectIdValid(user_id[1])
        THEN Outcome(Error(400, "invalid user_id"), << >>, U, P, oid)
        ELSE
        LET user_doc == find_one(U, "_id", ObjectId(user_id[1]))
            portfolio_doc == find_one(P, "user_id", user_id[1])
        IN  IF user_doc = None
            THEN Outcome(Error(404, "user not found"), <<Call("find_user")>>, U, P, oid)
            ELSE IF portfolio_doc = None
            THEN Outcome(Error(404, "portfolio not found"),
                         <<Call("find_user"), Call("find_portfolio")>>, U, P, oid)
            ELSE
            LET summary == _summarize_portfolio(portfolio_doc[1])
                heuristic == _heuristic_advice(user_doc[1], portfolio_doc[1])
                sys_prompt == AnalyzePrompt(user_doc[1], summary)
                hf == _hf_complete(sys_prompt, tok, AnswerOf(c, sys_prompt))
            IN  Outcome(Response(200, "advice",
                                 [summary |-> summary,
                                  advice |-> AdviceText(hf.text, heuristic)]),
                        <<Call("find_user"), Call("find_portfolio")>> \o hf.calls,
                        U, P, oid)

\* A chat that stores the empty portfolio it makes up
ChatStoringPortfolio(msg, U, P, tok, c, oid) ==
    IF msg.user_id = None
    THEN Outcome(Error(422, "user_id: field required"), << >>, U, P, oid)
    ELSE IF ~ObjectIdValid(msg.user_id[1])
    THEN Outcome(Error(400, "invalid user_id"), << >>, U, P, oid)
    ELSE
    LET user_doc == find_one(U, "_id", ObjectId(msg.user_id[1]))
        found == find_one(P, "user_id", msg.user_id[1])
        made == create_document([user_id |-> msg.user_id[1], holdings |-> << >>], 0, oid)
        P2 == IF found = None THEN insert_one(P, made) ELSE P
        oid2 == IF found = None THEN oid + 1 ELSE oid
    IN  IF user_doc = None
        THEN Outcome(Error(500, "Internal Server Error"),
                     <<Call("find_user"), Call("find_portfolio")>>, U, P2, oid2)
        ELSE Outcome(Response(200, "reply", [reply |-> Str(ChatFallback)]),
                     <<Call("find_user"), Call("find_portfolio")>>, U, P2, oid2)

\* POST /chat; the body is validated against schemas.ChatMessage before the
\* handler runs, and a body without user_id never reaches it.
chat(msg, U, P, tok, c, oid) ==
    IF msg.user_id = None
    THEN Outcome(Error(422, "user_id: field required"), << >>, U, P, oid)
    ELSE IF ~ObjectIdValid(msg.user_id[1])
    THEN Outcome(Error(400, "invalid user_id"), << >>, U, P, oid)
    ELSE
    LET user_doc == find_one(U, "_id", ObjectId(msg.user_id[1]))
        found == find_one(P, "user_id", msg.user_id[1])
        portfolio_doc == IF found = None THEN [holdings |-> << >>] ELSE found[1]
        summary == _summarize_portfolio(portfolio_doc)
    IN  IF user_doc = None
        \* user_doc.get on None: AttributeError, which nothing catches
        THEN Outcome(Error(500, "Internal Server Error"),
                     <<Call("find_user"), Call("find_portfolio")>>, U, P, oid)
        ELSE
        LET prompt == ChatPrompt(user_doc[1], summary, msg.message)
            hf == _hf_complete(prompt, tok, AnswerOf(c, prompt))
            reply == IF Truthy(hf.text) THEN hf.text ELSE Str(ChatFallback)
        IN  Outcome(Response(200, "reply", [reply |-> reply]),
                    <<Call("find_user"), Call("find_portfolio")>> \o hf.calls,
                    U, P, oid)

----------------------------------------------------------------------------
(* The requests and upstream answers the model draws from *)

Emails == {"ann@x.io", "bob@x.io"}

Profiles ==
    {[name |-> "Ann", risk_tolerance |-> "conservative", goals |-> << >>,
      age |-> None, horizon_years |-> None],
     [name |-> "Bob", risk_tolerance |-> "aggressive", goals |-> <<"retire", "house">>,
      age |-> Some(30), horizon_years |-> Some(10)]}

UserInputs == {[email |-> e] @@ p : e \in Emails, p \in Profiles}

OneProfileInputs ==
    {u \in UserInputs : (u.email = "ann@x.io") <=> (u.name = "Ann")}

AAPL == [symbol |-> "AAPL", quantity |-> 10, avg_cost |-> 150, sector |-> Some("Tech")]
BND == [symbol |-> "BND", quantity |-> 20, avg_cost |-> 50, sector |-> Some("Bonds")]

HoldingsInputs == {<< >>, <<AAPL, BND>>}

\* user_id strings: the ids the driver hands out first, one in upper case,
\* one that is not hex, the empty string
SavedIds == {StrOid(1), StrOid(2)}
AskedIds == SavedIds \cup {Hex(1, TRUE), BadId, EmptyId}

PortfolioInputs == [user_id : SavedIds, holdings : HoldingsInputs]

NoText == [null |-> TRUE, echo |-> FALSE, rest |-> << >>]
TextChoices ==
    {NoText} \cup [null : {FALSE}, echo : BOOLEAN, rest : {<< >>, <<" ", "ok">>}]

AnswerChoices ==
    {[shape |-> "fail", fail |-> f, text |-> NoText] : f \in Failures}
    \cup {[shape |-> sh, fail |-> NetworkError, text |-> c] :
             sh \in {"list", "dict"}, c \in TextChoices}

\* datetime.utcnow() does not go back
Times == {t \in {now, now + 1} : t <= MaxTime}

----------------------------------------------------------------------------
(* The service, one request at a time *)

Commit(r, o, t) ==
    /\ req' = r
    /\ resp' = o.resp
    /\ log' = o.log
    /\ user' = o.user
    /\ portfolio' = o.portfolio
    /\ nextOid' = o.nextOid
    /\ now' = t
    /\ UNCHANGED <<token, procs, sumIn, sumOut, hfIn, hfOut>>

\* An empty database, no request handled yet
InitService ==
    /\ user = << >>
    /\ portfolio = << >>
    /\ now = 0
    /\ nextOid = 1
    /\ req = [op |-> "none"]
    /\ resp = Response(0, "none", "")
    /\ log = << >>

Init ==
    /\ InitService
    /\ token \in BOOLEAN
    /\ procs = << >>
    /\ sumIn = << >>
    /\ sumOut = None
    /\ hfIn = << >>
    /\ hfOut = None

\* The clock may tick before a write (ticks), or stand still
Signin(inputs, ticks) ==
    \E u \in inputs, t \in ticks :
        Commit([op |-> "signin", user |-> u],
               signin(u, user, portfolio, t, nextOid), t)

SavePortfolio(inputs, ticks) ==
    \E p \in inputs, t \in ticks :
        Commit([op |-> "save", p |-> p],
               save_portfolio(p, user, portfolio, t, nextOid), t)

Analyze ==
    \E id \in {None} \cup {Some(s) : s \in AskedIds}, c \in AnswerChoices :
        Commit([op |-> "analyze", user_id |-> id],
               analyze([user_id |-> id], user, portfolio, token, c, nextOid), now)

Chat ==
    \E id \in {None} \cup {Some(s) : s \in AskedIds}, c \in AnswerChoices :
        Commit([op |-> "chat", user_id |-> id],
               chat([user_id |-> id, message |-> "hello"], user, portfolio,
                    token, c, nextOid), now)

\* The whole service, each email signing in with one profile and the clock
\* standing still
Next ==
    \/ Signin(OneProfileInputs, {now})
    \/ SavePortfolio(PortfolioInputs, {now})
    \/ Analyze
    \/ Chat

Spec == Init /\ [][Next]_vars

\* The two writing handlers, with every profile and a ticking clock; they
\* never read the credential
InitStore == Init /\ token = FALSE

NextStore ==
    \/ Signin(UserInputs, Times)
    \/ SavePortfolio(PortfolioInputs, Times)

SpecStore == InitStore /\ [][NextStore]_vars

----------------------------------------------------------------------------
(* Several workers serving /portfolio/save at once: every storage call is  *)
(* one step, and the steps of different workers interleave.                *)

Workers == 1..MaxWorkers

NoPortfolio == [user_id |-> EmptyId, holdings |-> << >>]
IdleWorker == [pc |-> "idle", p |-> NoPortfolio, existing |-> None]

InitConc ==
    /\ InitService
    /\ token = FALSE
    /\ procs = [w \in Workers |-> IdleWorker]
    /\ sumIn = << >>
    /\ sumOut = None
    /\ hfIn = << >>
    /\ hfOut = None

\* existing = db["portfolio"].find_one({"user_id": p.user_id})
SaveFind(w) ==
    /\ procs[w].pc = "idle"
    /\ \E p \in PortfolioInputs :
        procs' = [procs EXCEPT ![w] =
                    [pc |-> "found", p |-> p,
                     existing |-> find_one(portfolio, "user_id", p.user_id)]]
    /\ UNCHANGED <<user, portfolio, now, nextOid, token, req, resp, log,
                   sumIn, sumOut, hfIn, hfOut>>

\* update_one when a document was found, else create_document and return
SaveWrite(w) ==
    LET me == procs[w]
    IN  /\ me.pc = "found"
        /\ IF me.existing # None
           THEN /\ portfolio' = update_one(portfolio, "_id", me.existing[1]._id, me.p)
                /\ procs' = [procs EXCEPT ![w].pc = "updated"]
                /\ UNCHANGED <<nextOid, req, resp, log>>
           ELSE LET created == create_document(me.p, now, nextOid)
                IN  /\ portfolio' = insert_one(portfolio, created)
                    /\ nextOid' = nextOid + 1
                    /\ req' = [op |-> "save", p |-> me.p]
                    /\ resp' = Response(200, "portfolio", Serialized(created))
                    /\ log' = <<Call("find_portfolio"), Call("insert_portfolio")>>
                    /\ procs' = [procs EXCEPT ![w] = IdleWorker]
        /\ UNCHANGED <<user, now, token, sumIn, sumOut, hfIn, hfOut>>

\* updated = db["portfolio"].find_one({"_id": existing["_id"]}), and return
SaveReturn(w) ==
    LET me == procs[w]
        updated == find_one(portfolio, "_id", me.existing[1]._id)
    IN  /\ me.pc = "updated"
        /\ req' = [op |-> "save", p |-> me.p]
        /\ resp' = Response(200, "portfolio", Serialized(updated[1]))
        /\ log' = <<Call("find_portfolio"), Call("update_portfolio"),
                    Call("find_portfolio")>>
        /\ procs' = [procs EXCEPT ![w] = IdleWorker]
        /\ UNCHANGED <<user, portfolio, now, nextOid, token,
                       sumIn, sumOut, hfIn, hfOut>>

NextConc == \E w \in Workers : SaveFind(w) \/ SaveWrite(w) \/ SaveReturn(w)

SpecConc == InitConc /\ [][NextConc]_vars

----------------------------------------------------------------------------
(* _summarize_portfolio on its own, over every holdings list up to         *)
(* MaxHoldings drawn from a pool with equal and unequal weights            *)

HoldingPool ==
    {[symbol |-> "A", quantity |-> 1, avg_cost |-> 1, sector |-> Some("Tech")],
     [symbol |-> "B", quantity |-> 1, avg_cost |-> 1, sector |-> None],
     [symbol |-> "C", quantity |-> 2, avg_cost |-> 1, sector |-> Some("Tech")],
     [symbol |-> "D", quantity |-> 1, avg_cost |-> 0, sector |-> Some("Bonds")]}

SeqsUpTo(S, n) == UNION {[1..k -> S] : k \in 0..n}

InitSum ==
    /\ InitService
    /\ token = FALSE
    /\ procs = << >>
    /\ sumIn \in SeqsUpTo(HoldingPool, MaxHoldings)
    /\ sumOut = None
    /\ hfIn = << >>
    /\ hfOut = None

Summarize ==
    /\ sumOut = None
    /\ sumOut' = Some(_summarize_portfolio([holdings |-> sumIn]))
    /\ UNCHANGED <<user, portfolio, now, nextOid, token, req, resp, log,
                   procs, sumIn, hfIn, hfOut>>

NextSum == Summarize

SpecSum == InitSum /\ [][NextSum]_vars

----------------------------------------------------------------------------
(* _hf_complete on its own, over every short prompt and generated text     *)

Alphabet == {"a", " "}

Prompts == SeqsUpTo(Alphabet, 2) \ {<< >>}

GeneratedTexts == {Null} \cup {Str(s) : s \in SeqsUpTo(Alphabet, MaxText)}

HfAnswers ==
    Failures \cup {ListOf(v) : v \in GeneratedTexts}
             \cup {DictOf(v) : v \in GeneratedTexts}

InitHF ==
    /\ InitService
    /\ token = FALSE
    /\ procs = << >>
    /\ sumIn = << >>
    /\ sumOut = None
    /\ hfIn \in [prompt : Prompts, tok : BOOLEAN, out : HfAnswers]
    /\ hfOut = None

HfCall ==
    /\ hfOut = None
    /\ hfOut' = Some(_hf_complete(hfIn.prompt, hfIn.tok, hfIn.out))
    /\ UNCHANGED <<user, portfolio, now, nextOid, token, req, resp, log,
                   procs, sumIn, sumOut, hfIn>>

NextHF == HfCall

SpecHF == InitHF /\ [][NextHF]_vars

----------------------------------------------------------------------------
(* The claims *)

LlmCalls(calls) == SelectSeq(calls, LAMBDA e : e.call = "llm")

\* A user_id that is missing, empty or not 24 hex digits
Malformed(id) == id = None \/ id[1].k # "hex"

Advisory(r) == r.op \in {"analyze", "chat"}

UserFound(id) == find_one(user, "_id", ObjectId(id[1]))
PortfolioFound(id) == find_one(portfolio, "user_id", id[1])

\* C1: an /advice/analyze request whose user and portfolio exist is answered
\* 200, with the LLM client's text when it is non-empty and the heuristic
\* advice otherwise; no credential and every failed call end in the
\* heuristic advice.
C1_AdviceOrHeuristic ==
    (/\ req.op = "analyze"
     /\ ~Malformed(req.user_id)
     /\ UserFound(req.user_id) # None
     /\ PortfolioFound(req.user_id) # None)
    => /\ resp.status = 200
       /\ resp.kind = "advice"
       /\ LET h == Str(_heuristic_advice(UserFound(req.user_id)[1],
                                         PortfolioFound(req.user_id)[1]))
              calls == LlmCalls(log)
              advice == resp.body.advice
          IN  /\ (~token => calls = << >>)
              /\ (calls = << >> => advice = h)
              /\ \A i \in 1..Len(calls) :
                    /\ (calls[i].answer \in Failures => advice = h)
                    /\ (calls[i].returned.t = "str" /\ calls[i].returned.s # << >>
                           => advice = calls[i].returned)
                    /\ (calls[i].returned.t # "str" \/ calls[i].returned.s = << >>
                           => advice = h)

C1_Witness ==
    /\ req.op = "analyze"
    /\ resp.status = 200
    /\ LlmCalls(log) # << >>
    /\ LlmCalls(log)[1].answer = HttpError
    /\ resp.body.advice.s[1] = "checkup"

\* C2: a /chat request with a well-formed user_id whose user or portfolio
\* document is absent is answered 200 with a non-empty reply.
C2_ChatNeverFails ==
    (/\ req.op = "chat"
     /\ ~Malformed(req.user_id)
     /\ (UserFound(req.user_id) = None \/ PortfolioFound(req.user_id) = None))
    => /\ resp.status = 200
       /\ resp.kind = "reply"
       /\ Truthy(resp.body.reply)

C4_OnePortfolioPerUser ==
    \A i, j \in 1..Len(portfolio) :
        portfolio[i].user_id = portfolio[j].user_id => i = j

\* C5: after any sequence of sign-ins there is at most one User document per
\* email; a sign-in returns the identifier its email had before, a fresh one
\* if it had none, with the fields of this request; and no document ever
\* changes its identifier or email.
C5_SigninUpsert ==
    [][/\ \A i \in 1..Len(user) :
            /\ Len(user') >= Len(user)
            /\ user'[i]._id = user[i]._id
            /\ user'[i].email = user[i].email
       /\ req'.op = "signin" =>
            LET e == req'.user.email
                before == find_one(user, "email", e)
                body == resp'.body
            IN  /\ \A a \in Emails : Cardinality(Matches(user', "email", a)) <= 1
                /\ Cardinality(Matches(user', "email", e)) = 1
                /\ resp'.status = 200
                /\ body.email = e
                /\ body._id = StrOid(find_one(user', "email", e)[1]._id)
                /\ before # None => body._id = StrOid(before[1]._id)
                /\ before = None => Matches(user, "_id", ObjectId(body._id)) = {}
                /\ \A f \in {"name", "risk_tolerance", "goals", "age", "horizon_years"} :
                      /\ body[f] = req'.user[f]
                      /\ find_one(user', "email", e)[1][f] = req'.user[f]]_vars

C5_Witness ==
    /\ req.op = "signin"
    /\ Len(user) = 2
    /\ resp.body._id = StrOid(user[1]._id)
    /\ resp.body.updated_at > resp.body.created_at
    /\ resp.body.name = "Bob"

\* C6: an insert sets created_at and updated_at to the time of the insert;
\* an update by /users/signin or /portfolio/save sets updated_at to the time
\* of the update and leaves created_at as it was.
C6_Timestamps ==
    [][/\ req'.op = "signin" =>
            LET before == find_one(user, "email", req'.user.email)
                after == find_one(user', "email", req'.user.email)[1]
            IN  /\ after.updated_at = now'
                /\ after.created_at = IF before = None THEN now'
                                      ELSE before[1].created_at
       /\ req'.op = "save" =>
            LET before == find_one(portfolio, "user_id", req'.p.user_id)
                after == find_one(portfolio', "user_id", req'.p.user_id)[1]
            IN  /\ after.updated_at = now'
                /\ after.created_at = IF before = None THEN now'
                                      ELSE before[1].created_at]_vars

\* C7: when the upstream answers in either accepted shape with a text that
\* begins with the prompt, _hf_complete returns the text without that prefix
\* (surrounding whitespace aside): what it returns is never the text with
\* the echoed prompt still in front.
C7_EchoStripped ==
    (/\ hfOut # None
     /\ hfIn.tok
     /\ hfIn.out.kind = "json"
     /\ hfIn.out.has
     /\ hfIn.out.text.t = "str"
     /\ StartsWith(hfIn.out.text.s, hfIn.prompt))
    => LET full == hfIn.out.text.s
           rest == SubSeq(full, Len(hfIn.prompt) + 1, Len(full))
           returned == hfOut[1].text
       IN  /\ returned.t = "str"
           /\ Strip(returned.s) = Strip(rest)
           /\ returned.s # full

\* C8: an /advice/analyze or /chat request makes at most one outbound LLM
\* call: none without a credential, none unless the answer is 200, and a
\* call that failed is the only one.
C8_AtMostOneLlmCall ==
    Advisory(req)
    => LET calls == LlmCalls(log)
       IN  /\ Len(calls) <= 1
           /\ ~token => calls = << >>
           /\ resp.status # 200 => calls = << >>
           /\ (token /\ resp.status = 200) => Len(calls) = 1

C8_Witness ==
    /\ req.op = "chat"
    /\ resp.status = 200
    /\ Len(LlmCalls(log)) = 1
    /\ LlmCalls(log)[1].answer = NetworkError
    /\ resp.body.reply = Str(ChatFallback)

\* The place of holding i among the positions: one more than the holdings
\* that weigh more, or weigh the same and come earlier.
Weight(holdings, i) == Pct(HoldingCost(holdings[i]), TotalCost(holdings))

Rank(holdings, i) ==
    1 + Cardinality({j \in 1..Len(holdings) :
                        \/ Weight(holdings, j) > Weight(holdings, i)
                        \/ Weight(holdings, j) = Weight(holdings, i) /\ j < i})

\* C9: top_positions has min(5, holdings_count) entries in descending order
\* of weight, holdings of equal weight in their original order; an empty
\* list gives holdings_count 0, no sector and no position.
C9_TopPositions ==
    sumOut # None
    => LET top == sumOut[1].top_positions
           n == Len(sumIn)
       IN  /\ sumOut[1].holdings_count = n
           /\ Len(top) = Min(5, n)
           /\ \A i, j \in 1..Len(top) : i < j => top[i].weight >= top[j].weight
           /\ \A i \in 1..n :
                 Rank(sumIn, i) <= 5
                 => top[Rank(sumIn, i)] =
                       [symbol |-> sumIn[i].symbol, weight |-> Weight(sumIn, i)]
           /\ n = 0 => /\ DOMAIN sumOut[1].sector_allocation = {}
                       /\ top = << >>

C9_Witness ==
    /\ sumOut # None
    /\ Len(sumIn) = 6
    /\ Len(sumOut[1].top_positions) = 5
    /\ <<sumIn[1].symbol, sumIn[2].symbol, sumIn[3].symbol>> = <<"B", "C", "A">>
    /\ <<sumOut[1].top_positions[1].symbol, sumOut[1].top_positions[2].symbol,
         sumOut[1].top_positions[3].symbol>> = <<"C", "B", "A">>

\* C10: /advice/analyze and /chat leave every User and Portfolio document as
\* it was, whatever they answer.
C10_ReadOnly ==
    [][Advisory(req') => user' = user /\ portfolio' = portfolio]_vars

C10_Witness ==
    /\ req.op = "chat"
    /\ resp.status = 200
    /\ PortfolioFound(req.user_id) = None
    /\ user # << >>

====
